---- MODULE Spec2Model ----
(***************************************************************************)
(* Model of thread_monitor.py: the threads table and its lifecycle         *)
(* (ACTIVE -> REMOVED -> ANALYZED), the three pillars (harvester, checker, *)
(* analysis), the weighted scorer, and the scheduling loop main_loop.      *)
(*                                                                         *)
(* The committed content of the SQLite table is the variable threads.  A   *)
(* job that ends in conn.rollback(), or whose connection is closed with    *)
(* writes not yet committed, leaves the committed table as it was.         *)
(*                                                                         *)
(* The clock now moves between iterations only: the time a job takes is    *)
(* part of the time that passes until the next iteration starts.  The      *)
(* columns initial_score, num_comments_initial and link_flair are written  *)
(* by the same INSERT as author_name and read nowhere; they are left out.  *)
(***************************************************************************)
EXTENDS Integers, Sequences, FiniteSets, TLC

VARIABLES
    threads,              \* committed rows of table threads: post_id -> row
    ALLOWED_TICKERS_SET,  \* the global allow-list, loaded once before main_loop
    conn,                 \* main_loop's conn: "None" or "open"
    pc,                   \* position of main_loop inside its iteration
    now,                  \* the wall clock, time.time()
    current_time,         \* current_time sampled at the top of the iteration
    last_harvest, last_check, last_analysis,
    last_report_hourly, last_report_daily_1, last_report_daily_2,
    last_report_weekly,
    weighted_scores,      \* what the last report computed (NULL before any)
    iter,                 \* number of iterations started
    ran,                  \* history: the jobs called in this iteration, in order
    last0,                \* history: the last-run markers at the top of the iteration
    inserted,             \* history: post_ids this iteration's harvest inserted
    faults,               \* number of calls that raised into main_loop so far
    failure,              \* history: how the job block just passed ended
    closes,               \* per connection opened so far: its close() calls
    txn                   \* rows written in the open transaction, not committed

vars == <<threads, ALLOWED_TICKERS_SET, conn, pc, now, current_time,
          last_harvest, last_check, last_analysis, last_report_hourly,
          last_report_daily_1, last_report_daily_2, last_report_weekly,
          weighted_scores, iter, ran, last0, inserted, faults, failure,
          closes, txn>>

-----------------------------------------------------------------------------
(* Bounds of the model *)

MaxIter == 2          \* iterations of the while True loop that are explored
StartTime == 100000   \* time.time() when main_loop starts (seconds since epoch)
Limit == 1            \* stands for the page size 100 of subreddit.new / LIMIT 100
MaxFaults == 1        \* job calls that raise sqlite3.Error into main_loop

\* elapsed wall-clock time from one iteration's top to the next (sleep plus
\* the time the jobs took); the sleep itself is never longer than 1 second
Deltas == {1, 30, 21601}

-----------------------------------------------------------------------------
(* Nullable columns: NULL is the empty tuple, a value v is <<v>> *)

NULL == <<>>
Some(v) == <<v>>
Val(o) == o[1]

RECURSIVE SetToSeqs(_)
\* every order in which the elements of a set can be listed
SetToSeqs(S) ==
    IF S = {} THEN {<<>>}
    ELSE UNION {{<<x>> \o r : r \in SetToSeqs(S \ {x})} : x \in S}

Range(s) == {s[i] : i \in 1..Len(s)}

Max(S) == CHOOSE x \in S : \A y \in S : y <= x
Min(S) == CHOOSE x \in S : \A y \in S : x <= y

-----------------------------------------------------------------------------
(* Text: a string is a sequence of one-character strings *)

UpperChars == {"A", "B", "G", "O", "Q", "T"}
LowerChars == {"a", "b", "g", "o", "q", "t", "u", "p"}
DigitChars == {"1"}

ToUpper(c) ==
    CASE c = "a" -> "A" [] c = "b" -> "B" [] c = "g" -> "G" [] c = "o" -> "O"
      [] c = "q" -> "Q" [] c = "t" -> "T" [] c = "u" -> "U" [] c = "p" -> "P"
      [] OTHER -> c

IsUpper(c) == c \in UpperChars
IsAlpha(c) == c \in UpperChars \cup LowerChars
IsWord(c) == c \in UpperChars \cup LowerChars \cup DigitChars \cup {"_"}

\* \b at the position before s[i] (i = Len(s)+1 is the end of the string)
WordBoundary(s, i) ==
    LET before == i > 1 /\ IsWord(s[i - 1])
        after == i <= Len(s) /\ IsWord(s[i])
    IN  before # after

\* \b[A-Z]{2,5}\b at position i: the length matched, 0 when it does not match
MatchBare(s, i) ==
    LET ks == {k \in 2..5 :
                 /\ i + k - 1 <= Len(s)
                 /\ \A j \in i..(i + k - 1) : IsUpper(s[j])
                 /\ WordBoundary(s, i + k)}
    IN  IF WordBoundary(s, i) /\ ks # {} THEN Max(ks) ELSE 0

\* \$[a-zA-Z]{2,5}\b at position i: the length matched ($ included), or 0
MatchDollar(s, i) ==
    LET ks == {k \in 2..5 :
                 /\ i + k <= Len(s)
                 /\ \A j \in (i + 1)..(i + k) : IsAlpha(s[j])
                 /\ WordBoundary(s, i + k + 1)}
    IN  IF s[i] = "$" /\ ks # {} THEN 1 + Max(ks) ELSE 0

\* TICKER_REGEX at position i: the first alternative that matches
MatchAt(s, i) ==
    IF MatchBare(s, i) > 0 THEN MatchBare(s, i) ELSE MatchDollar(s, i)

RECURSIVE FindAllFrom(_, _)
FindAllFrom(s, i) ==
    IF i > Len(s) THEN <<>>
    ELSE LET m == MatchAt(s, i)
         IN  IF m > 0 THEN <<SubSeq(s, i, i + m - 1)>> \o FindAllFrom(s, i + m)
             ELSE FindAllFrom(s, i + 1)

\* re.findall(TICKER_REGEX, s): the non-overlapping matches, left to right
FindAll(s) == FindAllFrom(s, 1)

RECURSIVE LStripDollar(_)
\* t.lstrip('$')
LStripDollar(t) ==
    IF t # <<>> /\ t[1] = "$" THEN LStripDollar(Tail(t)) ELSE t

\* t.upper()
Upper(t) == [j \in 1..Len(t) |-> ToUpper(t[j])]

\* cleaned_ticker = t.lstrip('$').upper()
CleanTicker(t) == Upper(LStripDollar(t))

-----------------------------------------------------------------------------
(* The Content Source: the posts of the subreddit *)

PostIds == {"p1", "p2"}

\* what the Content Source serves for each post
\* p1: "BTQ up $Ab1" / "ABGOQT"      p2: "GO A" / "B$btq"
Title(id) ==
    CASE id = "p1" -> <<"B", "T", "Q", " ", "u", "p", " ", "$", "A", "b", "1">>
      [] id = "p2" -> <<"G", "O", " ", "A">>

Selftext(id) ==
    CASE id = "p1" -> <<"A", "B", "G", "O", "Q", "T">>
      [] id = "p2" -> <<"B", "$", "b", "t", "q">>

Author(id) == "alice"

Created(id) == CASE id = "p1" -> 10 [] id = "p2" -> 20

\* a submission as subreddit.new() yields it
\* (author "None": submission.author is None, the account was deleted)
Submissions == [id : PostIds, author : {"alice", "None"}]
\* p1 is also seen after its author's account was deleted
Listed == {sub \in Submissions :
             \/ sub.author = Author(sub.id)
             \/ sub.id = "p1" /\ sub.author = "None"}

\* the listings subreddit.new(limit=...) can yield: at most Limit submissions,
\* no post twice
Listings ==
    {l \in UNION {[1..n -> Listed] : n \in 0..Limit} :
        \A i, j \in 1..Len(l) : l[i].id = l[j].id => i = j}

\* removed_by_category as reddit.info() can report it ("None": attribute unset)
Hints == {"None", "moderator", "author"}

TickerAB == <<"A", "B">>
TickerBTQ == <<"B", "T", "Q">>
TickerGO == <<"G", "O">>

\* the allow-lists load_allowed_tickers can have produced (upper-cased lines)
AllowLists == {{}, {TickerAB, TickerGO}, {TickerAB, TickerBTQ, TickerGO}}

-----------------------------------------------------------------------------
(* JSON text of the extracted_tickers column: a string, character by character *)

Quote == "\""

RECURSIVE JsonItems(_)
\* the items of a list, each in quotes, separated by ", "
JsonItems(list) ==
    IF list = <<>> THEN <<>>
    ELSE IF Len(list) = 1 THEN <<Quote>> \o list[1] \o <<Quote>>
    ELSE <<Quote>> \o list[1] \o <<Quote, ",", " ">> \o JsonItems(Tail(list))

\* json.dumps(list) of a list of strings
JsonDumps(list) == <<"[">> \o JsonItems(list) \o <<"]">>

JsonError == [ok |-> FALSE, iterable |-> FALSE, list |-> <<>>]

\* a value json.loads returns that a for loop can iterate
JsonIterable(items) == [ok |-> TRUE, iterable |-> TRUE, list |-> items]

\* a value json.loads returns that is no collection (a number)
JsonScalar == [ok |-> TRUE, iterable |-> FALSE, list |-> <<>>]

RECURSIVE SkipSpaces(_, _)
SkipSpaces(text, i) ==
    IF i <= Len(text) /\ text[i] = " " THEN SkipSpaces(text, i + 1) ELSE i

RECURSIVE SkipDigits(_, _)
SkipDigits(text, i) ==
    IF i <= Len(text) /\ text[i] \in DigitChars THEN SkipDigits(text, i + 1) ELSE i

RECURSIVE JsonParseItems(_, _, _)
\* parse "item" (, "item")* ] from position i; acc holds the items read so far
JsonParseItems(text, i, acc) ==
    IF i > Len(text) \/ text[i] # Quote THEN JsonError
    ELSE LET closing == {j \in (i + 1)..Len(text) : text[j] = Quote}
         IN  IF closing = {} THEN JsonError
             ELSE LET j == Min(closing)
                      item == SubSeq(text, i + 1, j - 1)
                      k == SkipSpaces(text, j + 1)
                  IN  IF k > Len(text) THEN JsonError
                      ELSE IF text[k] = "]"
                      THEN IF SkipSpaces(text, k + 1) > Len(text)
                           THEN JsonIterable(Append(acc, item))
                           ELSE JsonError
                      ELSE IF text[k] = ","
                      THEN JsonParseItems(text, SkipSpaces(text, k + 1), Append(acc, item))
                      ELSE JsonError

\* a JSON string at position i: json.loads returns a str, and a for loop over
\* a str yields its characters
JsonParseString(text, i) ==
    LET closing == {j \in (i + 1)..Len(text) : text[j] = Quote}
    IN  IF closing = {} THEN JsonError
        ELSE LET j == Min(closing)
             IN  IF SkipSpaces(text, j + 1) > Len(text)
                 THEN JsonIterable([k \in 1..(j - i - 1) |-> <<text[i + k]>>])
                 ELSE JsonError

\* json.loads(text): ok is FALSE when json.JSONDecodeError is raised.  The
\* texts handled are lists of strings, strings and numbers
JsonLoads(text) ==
    LET i == SkipSpaces(text, 1)
    IN  IF i > Len(text) THEN JsonError
        ELSE IF text[i] = Quote THEN JsonParseString(text, i)
        ELSE IF text[i] \in DigitChars
        THEN IF SkipSpaces(text, SkipDigits(text, i)) > Len(text)
             THEN JsonScalar ELSE JsonError
        ELSE IF text[i] # "[" THEN JsonError
        ELSE LET k == SkipSpaces(text, i + 1)
             IN  IF k <= Len(text) /\ text[k] = "]"
                 THEN IF SkipSpaces(text, k + 1) > Len(text)
                      THEN JsonIterable(<<>>)
                      ELSE JsonError
                 ELSE JsonParseItems(text, k, <<>>)

-----------------------------------------------------------------------------
(* The threads table *)

\* mutant: the row is inserted with status 'REMOVED'
NewRow_Removed(sub) ==
    [title |-> Title(sub.id),
     selftext |-> Selftext(sub.id),
     author_name |-> IF sub.author = "None" THEN "[Deleted]" ELSE sub.author,
     created_utc |-> Created(sub.id),
     removed_utc |-> NULL,
     status |-> "REMOVED",
     removal_category |-> NULL,
     extracted_tickers |-> NULL]

\* INSERT ... (post_id, title, selftext, author_name, created_utc, ...):
\* status takes its default 'ACTIVE', the other columns are NULL
NewRow(sub) ==
    [title |-> Title(sub.id),
     selftext |-> Selftext(sub.id),
     author_name |-> IF sub.author = "None" THEN "[Deleted]" ELSE sub.author,
     created_utc |-> Created(sub.id),
     removed_utc |-> NULL,
     status |-> "ACTIVE",
     removal_category |-> NULL,
     extracted_tickers |-> NULL]

\* mutant: INSERT OR REPLACE
InsertOrIgnore_Replace(t, sub) ==
    [id \in DOMAIN t \cup {sub.id} |-> IF id = sub.id THEN NewRow(sub) ELSE t[id]]

\* INSERT OR IGNORE: post_id is the primary key, a known post_id is skipped
InsertOrIgnore(t, sub) ==
    IF sub.id \in DOMAIN t THEN t
    ELSE [id \in DOMAIN t \cup {sub.id} |-> IF id = sub.id THEN NewRow(sub) ELSE t[id]]

RECURSIVE InsertAll(_, _)
\* the for loop of harvest_new_threads over the listing
InsertAll(t, listing) ==
    IF listing = <<>> THEN t
    ELSE InsertAll(InsertOrIgnore(t, Head(listing)), Tail(listing))

\* mutant: the except branch commits what the run wrote so far
Rollback_Keep(committed, work) == work

\* conn.rollback(): the writes of the open transaction are dropped
Rollback(committed, work) == committed

\* harvest_new_threads: the listing is pulled lazily; when the Content Source
\* fails after k submissions the except branch rolls the inserts back
harvest_new_threads(t, listing, failsAfter) ==
    IF failsAfter <= Len(listing)
    THEN Rollback(t, InsertAll(t, SubSeq(listing, 1, failsAfter)))
    ELSE InsertAll(t, listing)

\* mutant: the SELECT without WHERE status = 'ACTIVE'
SelectActive_AnyStatus(t) ==
    {id \in DOMAIN t :
       Cardinality({j \in DOMAIN t : t[j].created_utc > t[id].created_utc}) < Limit}

\* SELECT post_id FROM threads WHERE status = 'ACTIVE'
\* ORDER BY created_utc DESC LIMIT 100
SelectActive(t) ==
    LET active == {id \in DOMAIN t : t[id].status = "ACTIVE"}
    IN  {id \in active :
           Cardinality({j \in active : t[j].created_utc > t[id].created_utc}) < Limit}

\* mutant: the UPDATE without removed_utc
UpdateRemoved_NoTimestamp(t, ids, category, utc) ==
    [id \in DOMAIN t |->
        IF id \in ids
        THEN [t[id] EXCEPT !.status = "REMOVED", !.removal_category = Some(category)]
        ELSE t[id]]

\* UPDATE threads SET status = 'REMOVED', removal_category = .., removed_utc = ..
\* WHERE post_id IN (ids)
UpdateRemoved(t, ids, category, utc) ==
    [id \in DOMAIN t |->
        IF id \in ids
        THEN [t[id] EXCEPT !.status = "REMOVED",
                           !.removal_category = Some(category),
                           !.removed_utc = Some(utc)]
        ELSE t[id]]

\* the hints for which check_for_deletions marks a returned submission
FlaggedCategories == {"moderator", "deleted", "automoderator"}

RECURSIVE UpdateFlagged(_, _, _, _)
\* for sub in active_submissions: ... if removal_status in (...): UPDATE
UpdateFlagged(t, info, todo, utc) ==
    IF todo = {} THEN t
    ELSE LET id == CHOOSE x \in todo : TRUE
             t2 == IF info[id] \in FlaggedCategories
                   THEN UpdateRemoved(t, {id}, info[id], utc)
                   ELSE t
         IN  UpdateFlagged(t2, info, todo \ {id}, utc)

\* mutant: deleted_ids = set(active_ids), without the set difference
check_for_deletions_AllQueried(t, info, utc, outcome) ==
    LET active_ids == SelectActive(t)
        returned_ids == DOMAIN info
        t1 == IF active_ids # {}
              THEN UpdateRemoved(t, active_ids, "MOD_OR_USER_REMOVED", utc)
              ELSE t
        t2 == UpdateFlagged(t1, info, returned_ids, utc)
    IN  IF active_ids = {} THEN t
        ELSE IF outcome \in {"api", "store"} THEN Rollback(t, t2)
        ELSE t2

\* mutant: no UPDATE for the posts reddit.info leaves out
check_for_deletions_FlaggedOnly(t, info, utc, outcome) ==
    LET active_ids == SelectActive(t)
        returned_ids == DOMAIN info
        t2 == UpdateFlagged(t, info, returned_ids, utc)
    IN  IF active_ids = {} THEN t
        ELSE IF outcome \in {"api", "store"} THEN Rollback(t, t2)
        ELSE t2

\* check_for_deletions: info maps the post_ids reddit.info returns to their
\* removed_by_category.  outcome "api": reddit.info raises and returns
\* nothing; "store": an UPDATE or the commit raises; both end in the except
\* branch, which rolls back.
\* outcome "late": the SELECT COUNT after conn.commit() raises; the except
\* branch finds nothing left to roll back
check_for_deletions(t, info, utc, outcome) ==
    LET active_ids == SelectActive(t)
        returned_ids == DOMAIN info
        deleted_ids == active_ids \ returned_ids
        t1 == IF deleted_ids # {}
              THEN UpdateRemoved(t, deleted_ids, "MOD_OR_USER_REMOVED", utc)
              ELSE t
        t2 == UpdateFlagged(t1, info, returned_ids, utc)
    IN  IF active_ids = {} THEN t
        ELSE IF outcome \in {"api", "store"} THEN Rollback(t, t2)
        ELSE t2

\* mutant: WHERE status != 'ACTIVE'
SelectRemoved_NotActive(t) == {id \in DOMAIN t : t[id].status # "ACTIVE"}

\* SELECT post_id, title, selftext FROM threads WHERE status = 'REMOVED'
SelectRemoved(t) == {id \in DOMAIN t : t[id].status = "REMOVED"}

\* mutant: title and selftext joined without the space
FullText_NoSeparator(title, selftext) == title \o selftext

\* full_text = f"{title} {selftext}"
FullText(title, selftext) == title \o <<" ">> \o selftext

\* the set verified_tickers of one post
VerifiedTickers(title, selftext, allowed) ==
    {CleanTicker(c) : c \in Range(FindAll(FullText(title, selftext)))} \cap allowed

\* mutant: a post without verified tickers gets no UPDATE
AnalyzeRow_SkipsEmpty(row, verified, order) ==
    IF verified # {}
    THEN [row EXCEPT !.extracted_tickers = Some(JsonDumps(order)),
                     !.status = "ANALYZED"]
    ELSE row

\* the UPDATE of one post in analyze_removed_threads; order is the order in
\* which list(verified_tickers) lists the set
AnalyzeRow(row, verified, order) ==
    IF verified # {}
    THEN [row EXCEPT !.extracted_tickers = Some(JsonDumps(order)),
                     !.status = "ANALYZED"]
    ELSE [row EXCEPT !.status = "ANALYZED"]

\* the orders list(verified_tickers) can have, one per REMOVED post
TickerOrders(t, allowed) ==
    LET removed == SelectRemoved(t)
        lists == [id \in removed |->
                    SetToSeqs(VerifiedTickers(t[id].title, t[id].selftext, allowed))]
    IN  {f \in [removed -> UNION {lists[id] : id \in removed}] :
           \A id \in removed : f[id] \in lists[id]}

\* mutant: no early return on an empty allow-list
analyze_removed_threads_NoEmptyCheck(t, allowed, orders) ==
    [id \in DOMAIN t |->
        IF id \in SelectRemoved(t)
        THEN AnalyzeRow(t[id],
                        VerifiedTickers(t[id].title, t[id].selftext, allowed),
                        orders[id])
        ELSE t[id]]

\* analyze_removed_threads when no statement raises
analyze_removed_threads(t, allowed, orders) ==
    LET removed_posts == SelectRemoved(t)
    IN  IF removed_posts = {} THEN t
        ELSE IF allowed = {} THEN t
        ELSE [id \in DOMAIN t |->
                IF id \in removed_posts
                THEN AnalyzeRow(t[id],
                                VerifiedTickers(t[id].title, t[id].selftext, allowed),
                                orders[id])
                ELSE t[id]]

\* analyze_removed_threads stopped by an exception after the UPDATEs of the
\* posts in done, before conn.commit(): the rows written, still uncommitted
analyze_partial(t, allowed, orders, done) ==
    LET removed_posts == SelectRemoved(t)
    IN  IF removed_posts = {} THEN <<>>
        ELSE IF allowed = {} THEN <<>>
        ELSE [id \in removed_posts \cap done |->
                AnalyzeRow(t[id],
                           VerifiedTickers(t[id].title, t[id].selftext, allowed),
                           orders[id])]

-----------------------------------------------------------------------------
(* The weighted scorer *)

\* mutant: removed_utc > ? in place of removed_utc >= ?
SelectAnalyzed_Exclusive(t, start_utc) ==
    {id \in DOMAIN t :
        /\ t[id].status = "ANALYZED"
        /\ t[id].removed_utc # NULL
        /\ Val(t[id].removed_utc) > start_utc
        /\ t[id].extracted_tickers # NULL}

\* SELECT extracted_tickers, author_name FROM threads WHERE status = 'ANALYZED'
\* AND removed_utc >= ? AND extracted_tickers IS NOT NULL
SelectAnalyzed(t, start_utc) ==
    {id \in DOMAIN t :
        /\ t[id].status = "ANALYZED"
        /\ t[id].removed_utc # NULL
        /\ Val(t[id].removed_utc) >= start_utc
        /\ t[id].extracted_tickers # NULL}

RECURSIVE CountTickers(_, _, _, _)
\* for ticker in tickers: one more mention, and the author joins its set
CountTickers(tickers, author_name, mentions, authors) ==
    IF tickers = <<>> THEN [ticker_mentions |-> mentions, ticker_unique_authors |-> authors]
    ELSE LET ticker == Head(tickers)
             known == ticker \in DOMAIN mentions
             m2 == [k \in DOMAIN mentions \cup {ticker} |->
                      IF k = ticker THEN (IF known THEN mentions[k] ELSE 0) + 1
                      ELSE mentions[k]]
             a2 == [k \in DOMAIN authors \cup {ticker} |->
                      IF k = ticker
                      THEN (IF known THEN authors[k] ELSE {}) \cup {author_name}
                      ELSE authors[k]]
         IN  CountTickers(Tail(tickers), author_name, m2, a2)

RECURSIVE CountRows(_, _, _, _)
\* for tickers_json, author_name in results: a row whose JSON does not load
\* is skipped (continue); see ScorerRaises for a value that cannot be iterated
CountRows(t, todo, mentions, authors) ==
    IF todo = {} THEN [ticker_mentions |-> mentions, ticker_unique_authors |-> authors]
    ELSE LET id == CHOOSE x \in todo : TRUE
             loaded == JsonLoads(Val(t[id].extracted_tickers))
             acc == IF loaded.ok /\ loaded.iterable
                    THEN CountTickers(loaded.list, t[id].author_name, mentions, authors)
                    ELSE [ticker_mentions |-> mentions, ticker_unique_authors |-> authors]
         IN  CountRows(t, todo \ {id}, acc.ticker_mentions, acc.ticker_unique_authors)

\* for ticker in tickers raises TypeError when json.loads returned a value
\* that is no collection: the loop is outside the try block
ScorerRaises(t, start_utc) ==
    \E id \in SelectAnalyzed(t, start_utc) :
        LET loaded == JsonLoads(Val(t[id].extracted_tickers))
        IN  loaded.ok /\ ~loaded.iterable

\* calculate_weighted_scores: ticker -> mentions * number of unique authors
calculate_weighted_scores(t, start_utc) ==
    LET acc == CountRows(t, SelectAnalyzed(t, start_utc), <<>>, <<>>)
    IN  [ticker \in DOMAIN acc.ticker_mentions |->
            acc.ticker_mentions[ticker] * Cardinality(acc.ticker_unique_authors[ticker])]

\* generate_word_cloud_report: the scores handed to the word cloud
generate_word_cloud_report(t, time_window_seconds, clock) ==
    calculate_weighted_scores(t, clock - time_window_seconds)

-----------------------------------------------------------------------------
(* main_loop *)

HARVEST_INTERVAL == 1
CHECK_INTERVAL == 30
ANALYSIS_INTERVAL == 60
REPORT_HOURLY_INTERVAL == 3600
REPORT_DAILY_INTERVAL_1 == 43200
REPORT_DAILY_INTERVAL_2 == 43200
REPORT_WEEKLY_INTERVAL == 86400
WINDOW_HOURLY == 3600
WINDOW_DAILY == 86400
WINDOW_WEEKLY == 604800
SLEEP_CAP == 10
API_COOLDOWN == 60
DB_RETRY_SLEEP == 10

Markers == <<last_harvest, last_check, last_analysis, last_report_hourly,
             last_report_daily_1, last_report_daily_2, last_report_weekly>>

Init ==
    /\ threads = <<>>
    /\ ALLOWED_TICKERS_SET \in AllowLists
    /\ conn = "None"
    /\ pc = "top"
    /\ now = StartTime
    /\ current_time = 0
    /\ last_harvest = 0 /\ last_check = 0 /\ last_analysis = 0
    /\ last_report_hourly = 0 /\ last_report_daily_1 = 0
    /\ last_report_daily_2 = 0 /\ last_report_weekly = 0
    /\ weighted_scores = NULL
    /\ iter = 0
    /\ ran = <<>>
    /\ last0 = <<0, 0, 0, 0, 0, 0, 0>>
    /\ inserted = {}
    /\ faults = 0
    /\ failure = "none"
    /\ closes = <<>>
    /\ txn = <<>>

Called(job) == Append(ran, job)

\* the positions of main_loop at which a job block starts
JobPcs == {"harvest", "check", "analysis", "hourly", "daily1", "daily2", "weekly"}

\* mutant: close() is never called
CloseIfOpen_Never(c, cl) == cl

\* if conn: conn.close() -- one more close() call on the connection opened last
CloseIfOpen(c, cl) ==
    IF c = "open" THEN [cl EXCEPT ![Len(cl)] = @ + 1] ELSE cl

\* conn.close() with a transaction open: its writes are dropped, the committed
\* table stays
CloseConnection(committed, work) == committed

\* while True: current_time = time.time(); if conn is None: connect
\* second branch: sqlite3.connect raises sqlite3.Error
LoopTop ==
    /\ pc = "top"
    /\ iter < MaxIter
    /\ iter' = iter + 1
    /\ current_time' = now
    /\ ran' = <<>>
    /\ inserted' = {}
    /\ last0' = Markers
    /\ \/ /\ conn' = "open"
          /\ closes' = IF conn = "None" THEN Append(closes, 0) ELSE closes
          /\ pc' = "harvest"
          /\ failure' = "none"
          /\ UNCHANGED faults
       \/ /\ conn = "None"
          /\ faults < MaxFaults
          /\ faults' = faults + 1
          /\ pc' = "dberr"
          /\ failure' = "raised"
          /\ UNCHANGED <<conn, closes>>
    /\ UNCHANGED <<threads, ALLOWED_TICKERS_SET, now, last_harvest, last_check,
                   last_analysis, last_report_hourly, last_report_daily_1,
                   last_report_daily_2, last_report_weekly, weighted_scores,
                   txn>>

\* if current_time - last_harvest >= HARVEST_INTERVAL: harvest_new_threads(...)
\* kind "api": the Content Source raises while the listing is pulled, after
\* failsAfter submissions; kind "store": an INSERT or conn.commit() raises,
\* after failsAfter inserts; both end in the function's except Exception
\* branch
HarvestStep ==
    /\ pc = "harvest"
    /\ pc' = "check"
    /\ IF current_time - last_harvest >= HARVEST_INTERVAL
       THEN \E listing \in Listings : \E failsAfter \in 0..(Len(listing) + 1) :
            \E kind \in {"none", "api", "store"} :
              /\ (kind = "none") <=> (failsAfter = Len(listing) + 1)
              /\ threads' = harvest_new_threads(threads, listing, failsAfter)
              /\ inserted' = DOMAIN threads' \ DOMAIN threads
              /\ ran' = Called("Harvest")
              /\ last_harvest' = current_time
              /\ failure' = kind
       ELSE /\ failure' = "none"
            /\ UNCHANGED <<threads, inserted, ran, last_harvest>>
    /\ UNCHANGED <<ALLOWED_TICKERS_SET, conn, now, current_time, last_check,
                   last_analysis, last_report_hourly, last_report_daily_1,
                   last_report_daily_2, last_report_weekly, weighted_scores,
                   iter, last0, faults, closes, txn>>

\* if current_time - last_check >= CHECK_INTERVAL: check_for_deletions(...)
\* second branch: the SELECT before the try block raises sqlite3.Error, which
\* leaves the function
CheckStep ==
    /\ pc = "check"
    /\ IF current_time - last_check >= CHECK_INTERVAL
       THEN \/ \E outcome \in {"ok", "api", "store", "late"} :
               \E returned \in SUBSET SelectActive(threads) :
               \E info \in [returned -> Hints] :
                 /\ SelectActive(threads) = {} => outcome = "ok"
                 /\ outcome = "api" => returned = {}
                 /\ threads' = check_for_deletions(threads, info, now, outcome)
                 /\ failure' = IF outcome = "ok" THEN "none" ELSE outcome
                 /\ ran' = Called("Check")
                 /\ last_check' = current_time
                 /\ pc' = "analysis"
                 /\ UNCHANGED faults
            \/ /\ faults < MaxFaults
               /\ faults' = faults + 1
               /\ failure' = "raised"
               /\ ran' = Called("Check")
               /\ pc' = "dberr"
               /\ UNCHANGED <<threads, last_check>>
       ELSE /\ pc' = "analysis"
            /\ failure' = "none"
            /\ UNCHANGED <<threads, ran, last_check, faults>>
    /\ UNCHANGED <<ALLOWED_TICKERS_SET, conn, now, current_time, last_harvest,
                   last_analysis, last_report_hourly, last_report_daily_1,
                   last_report_daily_2, last_report_weekly, weighted_scores,
                   iter, last0, inserted, closes, txn>>

\* if current_time - last_analysis >= ANALYSIS_INTERVAL: analyze_removed_threads(conn)
\* second branch: a statement raises sqlite3.Error after the posts in done
\* were updated; the function has no handler, the updates stay uncommitted in
\* the transaction
AnalysisStep ==
    /\ pc = "analysis"
    /\ IF current_time - last_analysis >= ANALYSIS_INTERVAL
       THEN \/ \E orders \in TickerOrders(threads, ALLOWED_TICKERS_SET) :
                 /\ threads' = analyze_removed_threads(threads, ALLOWED_TICKERS_SET, orders)
                 /\ UNCHANGED txn
                 /\ failure' = "none"
                 /\ ran' = Called("Analyze")
                 /\ last_analysis' = current_time
                 /\ pc' = "hourly"
                 /\ UNCHANGED faults
            \/ /\ faults < MaxFaults
               /\ faults' = faults + 1
               /\ \E orders \in TickerOrders(threads, ALLOWED_TICKERS_SET) :
                  \E done \in SUBSET SelectRemoved(threads) :
                    txn' = analyze_partial(threads, ALLOWED_TICKERS_SET, orders, done)
               /\ failure' = "raised"
               /\ ran' = Called("Analyze")
               /\ pc' = "dberr"
               /\ UNCHANGED <<threads, last_analysis>>
       ELSE /\ pc' = "hourly"
            /\ failure' = "none"
            /\ UNCHANGED <<threads, txn, ran, last_analysis, faults>>
    /\ UNCHANGED <<ALLOWED_TICKERS_SET, conn, now, current_time, last_harvest,
                   last_check, last_report_hourly, last_report_daily_1,
                   last_report_daily_2, last_report_weekly, weighted_scores,
                   iter, last0, inserted, closes>>

\* one report block of main_loop: when due, generate_word_cloud_report and
\* the marker takes current_time.  The call leaves the function with
\* TypeError when the scorer iterates a value that is no collection, with
\* sqlite3.Error when the scorer's SELECT raises, and with some other
\* exception when the rendering of non-empty scores raises (only savefig is
\* inside a try block)
ReportStep(job, due, window, next) ==
    IF due
    THEN IF ScorerRaises(threads, now - window)
         THEN /\ failure' = "crash"
              /\ ran' = Called(job)
              /\ pc' = "critical"
              /\ UNCHANGED <<weighted_scores, faults>>
         ELSE \/ /\ weighted_scores' = Some(generate_word_cloud_report(threads, window, now))
                 /\ failure' = "none"
                 /\ ran' = Called(job)
                 /\ pc' = next
                 /\ UNCHANGED faults
              \/ /\ faults < MaxFaults
                 /\ faults' = faults + 1
                 /\ failure' = "raised"
                 /\ ran' = Called(job)
                 /\ pc' = "dberr"
                 /\ UNCHANGED weighted_scores
              \/ /\ faults < MaxFaults
                 /\ generate_word_cloud_report(threads, window, now) # <<>>
                 /\ faults' = faults + 1
                 /\ weighted_scores' = Some(generate_word_cloud_report(threads, window, now))
                 /\ failure' = "crash"
                 /\ ran' = Called(job)
                 /\ pc' = "critical"
    ELSE /\ pc' = next
         /\ failure' = "none"
         /\ UNCHANGED <<weighted_scores, ran, faults>>

HourlyStep ==
    /\ pc = "hourly"
    /\ ReportStep("Hourly", current_time - last_report_hourly >= REPORT_HOURLY_INTERVAL,
                  WINDOW_HOURLY, "daily1")
    /\ last_report_hourly' =
         IF pc' = "daily1" /\ current_time - last_report_hourly >= REPORT_HOURLY_INTERVAL
         THEN current_time ELSE last_report_hourly
    /\ UNCHANGED <<threads, ALLOWED_TICKERS_SET, conn, now, current_time,
                   last_harvest, last_check, last_analysis, last_report_daily_1,
                   last_report_daily_2, last_report_weekly, iter, last0,
                   inserted, closes, txn>>

Daily1Step ==
    /\ pc = "daily1"
    /\ ReportStep("Daily_Run1",
                  current_time - last_report_daily_1 >= REPORT_DAILY_INTERVAL_1,
                  WINDOW_DAILY, "daily2")
    /\ last_report_daily_1' =
         IF pc' = "daily2" /\ current_time - last_report_daily_1 >= REPORT_DAILY_INTERVAL_1
         THEN current_time ELSE last_report_daily_1
    /\ UNCHANGED <<threads, ALLOWED_TICKERS_SET, conn, now, current_time,
                   last_harvest, last_check, last_analysis, last_report_hourly,
                   last_report_daily_2, last_report_weekly, iter, last0,
                   inserted, closes, txn>>

\* the second daily report also waits until more than half the interval has
\* passed since the first one: (current_time - last_report_daily_1) >
\* REPORT_DAILY_INTERVAL_1 / 2
Daily2Due ==
    /\ current_time - last_report_daily_2 >= REPORT_DAILY_INTERVAL_2
    /\ 2 * (current_time - last_report_daily_1) > REPORT_DAILY_INTERVAL_1

Daily2Step ==
    /\ pc = "daily2"
    /\ ReportStep("Daily_Run2", Daily2Due, WINDOW_DAILY, "weekly")
    /\ last_report_daily_2' =
         IF pc' = "weekly" /\ Daily2Due THEN current_time ELSE last_report_daily_2
    /\ UNCHANGED <<threads, ALLOWED_TICKERS_SET, conn, now, current_time,
                   last_harvest, last_check, last_analysis, last_report_hourly,
                   last_report_daily_1, last_report_weekly, iter, last0,
                   inserted, closes, txn>>

WeeklyStep ==
    /\ pc = "weekly"
    /\ ReportStep("Weekly", current_time - last_report_weekly >= REPORT_WEEKLY_INTERVAL,
                  WINDOW_WEEKLY, "sleep")
    /\ last_report_weekly' =
         IF pc' = "sleep" /\ current_time - last_report_weekly >= REPORT_WEEKLY_INTERVAL
         THEN current_time ELSE last_report_weekly
    /\ UNCHANGED <<threads, ALLOWED_TICKERS_SET, conn, now, current_time,
                   last_harvest, last_check, last_analysis, last_report_hourly,
                   last_report_daily_1, last_report_daily_2, iter, last0,
                   inserted, closes, txn>>

\* sleep_time = min(...): last_report_daily_2 is not among the arguments
SleepTime ==
    Min({HARVEST_INTERVAL - (current_time - last_harvest),
         CHECK_INTERVAL - (current_time - last_check),
         ANALYSIS_INTERVAL - (current_time - last_analysis),
         REPORT_HOURLY_INTERVAL - (current_time - last_report_hourly),
         REPORT_DAILY_INTERVAL_1 - (current_time - last_report_daily_1),
         REPORT_WEEKLY_INTERVAL - (current_time - last_report_weekly),
         SLEEP_CAP})

\* if sleep_time > 0: time.sleep(sleep_time); the next iteration starts once
\* the sleep and the time the jobs took have passed
SleepStep ==
    /\ pc = "sleep"
    /\ \E d \in Deltas :
         /\ d >= SleepTime
         /\ now' = current_time + d
    /\ pc' = "top"
    /\ UNCHANGED <<threads, ALLOWED_TICKERS_SET, conn, current_time, last_harvest,
                   last_check, last_analysis, last_report_hourly,
                   last_report_daily_1, last_report_daily_2, last_report_weekly,
                   weighted_scores, iter, ran, last0, inserted, faults, failure,
                   closes, txn>>

\* except sqlite3.Error: if conn: conn.close(); conn = None; time.sleep(10)
DbErrorHandler ==
    /\ pc = "dberr"
    /\ closes' = CloseIfOpen(conn, closes)
    /\ threads' = CloseConnection(threads, txn)
    /\ txn' = <<>>
    /\ conn' = "None"
    /\ now' = now + DB_RETRY_SLEEP
    /\ pc' = "top"
    /\ UNCHANGED <<ALLOWED_TICKERS_SET, current_time, last_harvest,
                   last_check, last_analysis, last_report_hourly,
                   last_report_daily_1, last_report_daily_2, last_report_weekly,
                   weighted_scores, iter, ran, last0, inserted, faults, failure>>

\* except praw.exceptions.APIException: time.sleep(60).  The handler is shown
\* for reference and is no disjunct of Next: the Content Source is called by
\* harvest_new_threads and check_for_deletions only, inside try blocks whose
\* except Exception branch ends every exception, so no step of main_loop takes
\* the position "apierr"
ApiErrorHandler ==
    /\ pc = "apierr"
    /\ now' = now + API_COOLDOWN
    /\ pc' = "top"
    /\ UNCHANGED <<threads, ALLOWED_TICKERS_SET, conn, current_time, last_harvest,
                   last_check, last_analysis, last_report_hourly,
                   last_report_daily_1, last_report_daily_2, last_report_weekly,
                   weighted_scores, iter, ran, last0, inserted, faults, failure,
                   closes, txn>>

\* finally: if conn: conn.close() -- and main_loop returns.  The locals of
\* main_loop end with the call; they are shown with their initial values
ReturnFromMainLoop ==
    /\ closes' = CloseIfOpen(conn, closes)
    /\ threads' = CloseConnection(threads, txn)
    /\ txn' = <<>>
    /\ pc' = "returned"
    /\ conn' = "None"
    /\ current_time' = 0
    /\ last_harvest' = 0 /\ last_check' = 0 /\ last_analysis' = 0
    /\ last_report_hourly' = 0 /\ last_report_daily_1' = 0
    /\ last_report_daily_2' = 0 /\ last_report_weekly' = 0
    /\ ran' = <<>>
    /\ last0' = <<0, 0, 0, 0, 0, 0, 0>>
    /\ inserted' = {}
    /\ UNCHANGED <<ALLOWED_TICKERS_SET, now, weighted_scores, iter, faults>>

\* except Exception: logging.critical(...); break -- then the finally block
CriticalHandler ==
    /\ pc = "critical"
    /\ failure' = failure
    /\ ReturnFromMainLoop

\* except KeyboardInterrupt -- then the finally block.  The interrupt is
\* observed while a job runs (before its commit), during the sleep at the end
\* of the iteration, or during the sleep of the sqlite3.Error handler
KeyboardInterrupt ==
    /\ pc \in JobPcs \cup {"sleep", "top"}
    /\ failure' = "interrupt"
    /\ ReturnFromMainLoop

Next ==
    \/ LoopTop
    \/ HarvestStep
    \/ CheckStep
    \/ AnalysisStep
    \/ HourlyStep
    \/ Daily1Step
    \/ Daily2Step
    \/ WeeklyStep
    \/ SleepStep
    \/ DbErrorHandler
    \/ CriticalHandler
    \/ KeyboardInterrupt

Spec == Init /\ [][Next]_vars

-----------------------------------------------------------------------------
(* The report blocks on a table that main_loop finds at start *)

\* texts the column extracted_tickers of an ANALYZED row can hold when the
\* process starts: initialize_db keeps an existing table (CREATE TABLE IF NOT
\* EXISTS), whoever wrote its rows.
\*   ["AB"]    ["AB", "GO"]    ["A (cut short)    "AB" (a string)    1
TickerTexts ==
    {JsonDumps(<<TickerAB>>),
     JsonDumps(<<TickerAB, TickerGO>>),
     <<"[", Quote, "A">>,
     <<Quote, "A", "B", Quote>>,
     <<"1">>}

\* an ANALYZED row of such a table, removed shortly before the process started
StoredRow(id, author_name, text) ==
    [title |-> Title(id),
     selftext |-> Selftext(id),
     author_name |-> author_name,
     created_utc |-> Created(id),
     removed_utc |-> Some(StartTime - 10),
     status |-> "ANALYZED",
     removal_category |-> Some("moderator"),
     extracted_tickers |-> Some(text)]

StoredTables ==
    {[id \in PostIds |-> StoredRow(id, authors[id], texts[id])] :
        authors \in [PostIds -> {"alice", "[Deleted]"}],
        texts \in [PostIds -> TickerTexts]}

\* main_loop in its first iteration, at the first report block: the harvester
\* pulled nothing and the checker and the analysis found no row to work on
InitScorer ==
    /\ threads \in StoredTables
    /\ ALLOWED_TICKERS_SET = {TickerAB, TickerBTQ, TickerGO}
    /\ conn = "open"
    /\ pc = "hourly"
    /\ now = StartTime
    /\ current_time = StartTime
    /\ last_harvest = StartTime /\ last_check = StartTime
    /\ last_analysis = StartTime
    /\ last_report_hourly = 0 /\ last_report_daily_1 = 0
    /\ last_report_daily_2 = 0 /\ last_report_weekly = 0
    /\ weighted_scores = NULL
    /\ iter = 1
    /\ ran = <<"Harvest", "Check", "Analyze">>
    /\ last0 = <<0, 0, 0, 0, 0, 0, 0>>
    /\ inserted = {}
    /\ faults = MaxFaults
    /\ failure = "none"
    /\ closes = <<0>>
    /\ txn = <<>>

NextScorer ==
    \/ HourlyStep
    \/ Daily1Step
    \/ Daily2Step
    \/ WeeklyStep
    \/ CriticalHandler

SpecScorer == InitScorer /\ [][NextScorer]_vars

-----------------------------------------------------------------------------
(* The three pillars under a fair scheduler *)

\* what main_loop keeps besides the table
LoopState ==
    <<ALLOWED_TICKERS_SET, conn, pc, now, current_time, last_harvest, last_check,
      last_analysis, last_report_hourly, last_report_daily_1,
      last_report_daily_2, last_report_weekly, weighted_scores, iter, ran,
      last0, inserted, faults, failure, closes, txn>>

\* the allow-list is not empty; the clock and the markers of main_loop are
\* left out of this specification: which job block is due next is the
\* scheduler's choice
InitFair ==
    /\ Init
    /\ ALLOWED_TICKERS_SET # {}

\* a run of harvest_new_threads that returns (a run that fails leaves the
\* table as it is)
HarvestJob ==
    /\ \E listing \in Listings :
         threads' = harvest_new_threads(threads, listing, Len(listing) + 1)
    /\ UNCHANGED LoopState

\* a run of check_for_deletions that returns
CheckJob ==
    /\ \E returned \in SUBSET SelectActive(threads) :
       \E info \in [returned -> Hints] :
         threads' = check_for_deletions(threads, info, now, "ok")
    /\ UNCHANGED LoopState

\* a run of analyze_removed_threads; no statement raises
AnalyzeJob ==
    /\ \E orders \in TickerOrders(threads, ALLOWED_TICKERS_SET) :
         threads' = analyze_removed_threads(threads, ALLOWED_TICKERS_SET, orders)
    /\ UNCHANGED LoopState

NextFair ==
    \/ HarvestJob
    \/ CheckJob
    \/ AnalyzeJob

\* a run of the analysis changes the table exactly when a thread is REMOVED:
\* this is ENABLED <<AnalyzeJob>>_vars, written as a predicate on the table
AnalysisHasWork == SelectRemoved(threads) # {}

\* the analysis block of main_loop is due again every ANALYSIS_INTERVAL
\* seconds, so a run of the analysis that has work to do is not put off for
\* ever: WF_vars(AnalyzeJob), with its enabling condition written out
FairAnalysis == []<>(~AnalysisHasWork) \/ []<><<AnalyzeJob>>_vars

SpecFair == InitFair /\ [][NextFair]_vars /\ FairAnalysis

-----------------------------------------------------------------------------
(* Harvest and check while the Content Source omits one post *)

\* the post reddit.info never returns: the older of the two, so that the
\* other one, once harvested, is the newer ACTIVE thread
OmittedPost == "p1"

\* what main_loop keeps besides the table and its position
TurnState ==
    <<ALLOWED_TICKERS_SET, conn, now, current_time, last_harvest, last_check,
      last_analysis, last_report_hourly, last_report_daily_1,
      last_report_daily_2, last_report_weekly, weighted_scores, iter, ran,
      last0, inserted, faults, failure, closes, txn>>

\* the clock and the markers are left out: an iteration is at its harvest
\* block, then at the test of its check block
InitOmit ==
    /\ threads = <<>>
    /\ ALLOWED_TICKERS_SET \in AllowLists
    /\ conn = "open"
    /\ pc = "harvest"
    /\ now = StartTime
    /\ current_time = StartTime
    /\ last_harvest = 0
    /\ last_check = 0
    /\ last_analysis = 0
    /\ last_report_hourly = 0
    /\ last_report_daily_1 = 0
    /\ last_report_daily_2 = 0
    /\ last_report_weekly = 0
    /\ weighted_scores = <<>>
    /\ iter = 1
    /\ ran = <<>>
    /\ last0 = <<0, 0, 0, 0, 0, 0, 0>>
    /\ inserted = {}
    /\ faults = 0
    /\ failure = "none"
    /\ closes = <<0>>
    /\ txn = <<>>

\* the harvest block: the run returns, or fails and rolls back
HarvestTurn ==
    /\ pc = "harvest"
    /\ \E listing \in Listings :
       \E failsAfter \in 1..(Len(listing) + 1) :
         threads' = harvest_new_threads(threads, listing, failsAfter)
    /\ pc' = "check"
    /\ UNCHANGED TurnState

\* the check block when it is due: the run returns, and reddit.info leaves
\* OmittedPost out of its answer
CheckTurn ==
    /\ pc = "check"
    /\ \E returned \in SUBSET (SelectActive(threads) \ {OmittedPost}) :
       \E info \in [returned -> Hints] :
         threads' = check_for_deletions(threads, info, now, "ok")
    /\ pc' = "harvest"
    /\ UNCHANGED TurnState

\* the check block when CHECK_INTERVAL has not passed since the last check
CheckNotDue ==
    /\ pc = "check"
    /\ pc' = "harvest"
    /\ UNCHANGED <<threads, TurnState>>

NextOmit ==
    \/ HarvestTurn
    \/ CheckTurn
    \/ CheckNotDue

\* main_loop keeps iterating, and the check block is due again every
\* CHECK_INTERVAL seconds: of the iterations, infinitely many run the check
SpecOmit ==
    InitOmit /\ [][NextOmit]_vars /\ WF_vars(HarvestTurn) /\ SF_vars(CheckTurn)

-----------------------------------------------------------------------------
(* Properties *)

Rows == DOMAIN threads
StatusOf(id) == threads[id].status

ForwardSteps ==
    {<<"ACTIVE", "ACTIVE">>, <<"REMOVED", "REMOVED">>, <<"ANALYZED", "ANALYZED">>,
     <<"ACTIVE", "REMOVED">>, <<"REMOVED", "ANALYZED">>}

\* C1: for every thread, every step of the harvester, the checker and the
\* analysis (failed runs included) keeps the row and either leaves its status
\* or moves it ACTIVE -> REMOVED or REMOVED -> ANALYZED; a new row starts
\* ACTIVE.  So the statuses a thread takes are a prefix of
\* [ACTIVE, REMOVED, ANALYZED].
C1_StatusForwardOnly ==
    [][/\ \A id \in Rows :
            /\ id \in DOMAIN threads'
            /\ <<threads[id].status, threads'[id].status>> \in ForwardSteps
       /\ \A id \in DOMAIN threads' \ Rows : threads'[id].status = "ACTIVE"]_vars

\* a later iteration in which the checker ran, with one thread ANALYZED and
\* another one REMOVED
C1_Witness ==
    /\ iter = 2
    /\ "Check" \in Range(ran)
    /\ \E id \in Rows : StatusOf(id) = "ANALYZED"
    /\ \E id \in Rows : StatusOf(id) = "REMOVED"

\* C2: harvesting any listing twice leaves the table as harvesting it once
\* (no insertion the second time), and harvesting changes no row that was
\* already there, whatever its status.
C2_HarvestIdempotent ==
    \A listing \in Listings :
        LET ok == Len(listing) + 1
            once == harvest_new_threads(threads, listing, ok)
            twice == harvest_new_threads(once, listing, ok)
        IN  /\ twice = once
            /\ DOMAIN twice \ DOMAIN once = {}
            /\ \A id \in Rows : once[id] = threads[id]
            /\ DOMAIN once = Rows \cup {listing[i].id : i \in 1..Len(listing)}

\* a later iteration's harvest inserted nothing while p1 is an ANALYZED
\* thread of alice; harvesting p1 once more, now without its author, leaves
\* the table as it is
C2_Witness ==
    /\ pc = "check"
    /\ iter = 2
    /\ "Harvest" \in Range(ran)
    /\ inserted = {}
    /\ "p1" \in Rows
    /\ threads["p1"].status = "ANALYZED"
    /\ threads["p1"].author_name = "alice"
    /\ harvest_new_threads(threads, <<[id |-> "p1", author |-> "None"]>>, 2) = threads

\* C3: removed_utc and removal_category are both NULL exactly when the
\* status is ACTIVE, and both set when it is REMOVED or ANALYZED.
C3_RemovalFieldsIffNotActive ==
    \A id \in Rows :
        /\ threads[id].status \in {"ACTIVE", "REMOVED", "ANALYZED"}
        /\ (threads[id].status = "ACTIVE") <=> (threads[id].removed_utc = NULL)
        /\ (threads[id].status = "ACTIVE") <=> (threads[id].removal_category = NULL)

\* an ACTIVE thread beside one the checker marked REMOVED
C3_Witness ==
    /\ \E id \in Rows : StatusOf(id) = "ACTIVE"
    /\ \E id \in Rows : StatusOf(id) = "REMOVED" /\ threads[id].removed_utc # NULL

TickersUnsetUntilAnalyzed(t) ==
    \A id \in DOMAIN t :
        t[id].status \in {"ACTIVE", "REMOVED"} => t[id].extracted_tickers = NULL

\* C4: extracted_tickers is NULL while the status is ACTIVE or REMOVED, and
\* no step changes the extracted_tickers of a thread that is ANALYZED.
C4_TickersFrozenOnceAnalyzed ==
    [][/\ TickersUnsetUntilAnalyzed(threads)
       /\ TickersUnsetUntilAnalyzed(threads')
       /\ \A id \in Rows :
            threads[id].status = "ANALYZED" =>
                /\ id \in DOMAIN threads'
                /\ threads'[id].extracted_tickers = threads[id].extracted_tickers]_vars

\* the analysis ran again in a later iteration while a thread analyzed earlier
\* holds two tickers
C4_Witness ==
    /\ iter = 2
    /\ pc = "hourly"
    /\ "Analyze" \in Range(ran)
    /\ \E id \in Rows :
         /\ threads[id].status = "ANALYZED"
         /\ Val(threads[id].removed_utc) < current_time
         /\ threads[id].extracted_tickers # NULL
         /\ Len(JsonLoads(Val(threads[id].extracted_tickers)).list) = 2
\* the normalized candidates of one text
Candidates(text) == {CleanTicker(c) : c \in Range(FindAll(text))}

\* the tickers a row persists, read back from its JSON text
PersistedTickers(row) == Range(JsonLoads(Val(row.extracted_tickers)).list)

PersistedWithinAllowList(t) ==
    \A id \in DOMAIN t :
        t[id].extracted_tickers # NULL =>
            /\ JsonLoads(Val(t[id].extracted_tickers)).ok
            /\ PersistedTickers(t[id]) # {}
            /\ PersistedTickers(t[id]) \subseteq ALLOWED_TICKERS_SET

\* the analysis was called in this step and returned
AnalysisReturned == pc = "analysis" /\ pc' = "hourly" /\ ran' = Append(ran, "Analyze")

\* C5: a run of the analysis with a non-empty allow-list that returns makes
\* every REMOVED thread ANALYZED, with extracted_tickers the JSON list (no
\* ticker twice) of the allowed normalized candidates of title and body, or
\* NULL when there is none; every persisted list is non-empty and within the
\* allow-list.
C5_AnalysisPersistsAllowedCandidates ==
    [][/\ PersistedWithinAllowList(threads')
       /\ (AnalysisReturned /\ ALLOWED_TICKERS_SET # {}) =>
            \A id \in Rows :
                threads[id].status = "REMOVED" =>
                    LET expected == (Candidates(threads[id].title)
                                       \cup Candidates(threads[id].selftext))
                                    \cap ALLOWED_TICKERS_SET
                        after == threads'[id]
                    IN  /\ after.status = "ANALYZED"
                        /\ IF expected = {}
                           THEN after.extracted_tickers = NULL
                           ELSE /\ after.extracted_tickers # NULL
                                /\ PersistedTickers(after) = expected
                                /\ Len(JsonLoads(Val(after.extracted_tickers)).list)
                                     = Cardinality(expected)]_vars

\* after an analysis run under the allow-list {AB, GO}: p1, whose only
\* candidate is BTQ, is ANALYZED without tickers, and p2 was just made
\* ANALYZED with GO (its candidates are GO and BTQ)
C5_Witness ==
    /\ pc = "hourly"
    /\ "Analyze" \in Range(ran)
    /\ ALLOWED_TICKERS_SET = {TickerAB, TickerGO}
    /\ Rows = {"p1", "p2"}
    /\ threads["p1"].status = "ANALYZED"
    /\ threads["p1"].extracted_tickers = NULL
    /\ threads["p2"].status = "ANALYZED"
    /\ Val(threads["p2"].removed_utc) = current_time
    /\ threads["p2"].extracted_tickers # NULL
    /\ PersistedTickers(threads["p2"]) = {TickerGO}

\* C6: with an empty allow-list a run of the analysis changes no row, and no
\* thread is ever ANALYZED.
C6_EmptyAllowListParksRemoved ==
    [][ALLOWED_TICKERS_SET = {} =>
          /\ (pc = "analysis" => threads' = threads)
          /\ \A id \in DOMAIN threads' : threads'[id].status # "ANALYZED"]_vars

\* the analysis ran in the second iteration too, with the allow-list empty
\* and a thread REMOVED since the first iteration
C6_Witness ==
    /\ ALLOWED_TICKERS_SET = {}
    /\ iter = 2
    /\ pc = "hourly"
    /\ "Analyze" \in Range(ran)
    /\ \E id \in Rows :
         /\ threads[id].status = "REMOVED"
         /\ Val(threads[id].removed_utc) < current_time

\* the threads a report with this window start counts
InWindow(start_utc) ==
    {id \in Rows :
        /\ threads[id].status = "ANALYZED"
        /\ threads[id].extracted_tickers # NULL
        /\ threads[id].removed_utc # NULL
        /\ ~(Val(threads[id].removed_utc) < start_utc)}

Mentioning(ticker, start_utc) ==
    {id \in InWindow(start_utc) : ticker \in PersistedTickers(threads[id])}

\* window starts around every removal time in the table, and the ones the
\* reports use now
WindowStarts ==
    {0}
    \cup UNION {{Val(threads[id].removed_utc) - 1, Val(threads[id].removed_utc),
                 Val(threads[id].removed_utc) + 1} :
                id \in {x \in Rows : threads[x].removed_utc # NULL}}
    \cup {now - WINDOW_HOURLY, now - WINDOW_DAILY, now - WINDOW_WEEKLY}

\* C7: for every window start, the keys of calculate_weighted_scores are the
\* tickers of the ANALYZED threads with tickers and removed_utc >= start, and
\* each value is (threads in the window mentioning the ticker) x (distinct
\* authors of those threads); no key has score zero.
C7_WeightedScores ==
    \A start_utc \in WindowStarts :
        LET scores == calculate_weighted_scores(threads, start_utc)
        IN  /\ DOMAIN scores =
                 UNION {PersistedTickers(threads[id]) : id \in InWindow(start_utc)}
            /\ \A ticker \in DOMAIN scores :
                 /\ scores[ticker] =
                      Cardinality(Mentioning(ticker, start_utc))
                      * Cardinality({threads[id].author_name :
                                       id \in Mentioning(ticker, start_utc)})
                 /\ scores[ticker] > 0

\* two analyzed threads of different authors mention BTQ (score 2 x 2), and
\* the window that starts exactly at the later removal time counts only that
\* thread
C7_Witness ==
    /\ Rows = {"p1", "p2"}
    /\ \A id \in Rows : threads[id].status = "ANALYZED" /\ threads[id].extracted_tickers # NULL
    /\ Val(threads["p1"].removed_utc) < Val(threads["p2"].removed_utc)
    /\ calculate_weighted_scores(threads, Val(threads["p1"].removed_utc))[TickerBTQ] = 4
    /\ calculate_weighted_scores(threads, Val(threads["p2"].removed_utc))[TickerBTQ] = 1
    /\ weighted_scores # NULL
    /\ TickerBTQ \in DOMAIN Val(weighted_scores)
    /\ Val(weighted_scores)[TickerBTQ] = 4
\* the jobs of main_loop in the order of their blocks, their intervals and
\* their last-run markers
Jobs == <<"Harvest", "Check", "Analyze", "Hourly", "Daily_Run1", "Daily_Run2", "Weekly">>
Intervals ==
    <<HARVEST_INTERVAL, CHECK_INTERVAL, ANALYSIS_INTERVAL, REPORT_HOURLY_INTERVAL,
      REPORT_DAILY_INTERVAL_1, REPORT_DAILY_INTERVAL_2, REPORT_WEEKLY_INTERVAL>>
JobIndex(job) == CHOOSE k \in 1..Len(Jobs) : Jobs[k] = job

\* C8, as claimed: when an iteration reaches its sleep, each job was run in it
\* if and only if the time since its last-run marker (as it was at the top of
\* the iteration) is at least its interval; in the first iteration all run.
C8_EveryDueJobRuns ==
    pc = "sleep" =>
        \A k \in 1..Len(Jobs) :
            (Jobs[k] \in Range(ran)) <=> (current_time - last0[k] >= Intervals[k])

\* C9, as claimed: every job main_loop has called in this iteration has its
\* last-run marker at this iteration's current_time, also when the call raised.
C9_MarkerSetForEveryRun ==
    \A k \in 1..Len(Jobs) :
        Jobs[k] \in Range(ran) => Markers[k] = current_time

\* the jobs of one iteration are called in the order of Jobs, none twice
RanInFixedOrder ==
    \A i, j \in 1..Len(ran) : i < j => JobIndex(ran[i]) < JobIndex(ran[j])

\* C10, as claimed: the jobs run in the fixed order, and a thread inserted by
\* this iteration's harvest is still ACTIVE when the iteration ends.
C10_InsertedStaysActive ==
    /\ RanInFixedOrder
    /\ pc = "sleep" => \A id \in inserted : threads[id].status = "ACTIVE"

\* C10, amended: the jobs run in the fixed order; a thread inserted by this
\* iteration's harvest is ACTIVE unless the checker ran after it in the same
\* iteration, which may mark it REMOVED at once, and it is ANALYZED in the same
\* iteration only if the analysis ran after the checker.
C10_InsertedLeavesActiveOnlyByCheck ==
    /\ RanInFixedOrder
    /\ \A id \in inserted :
         /\ id \in Rows
         /\ threads[id].status # "ACTIVE" =>
              /\ \E i, j \in 1..Len(ran) : i < j /\ ran[i] = "Harvest" /\ ran[j] = "Check"
              /\ threads[id].removed_utc # NULL
              /\ Val(threads[id].removed_utc) >= current_time
         /\ threads[id].status = "ANALYZED" =>
              \E i, j \in 1..Len(ran) : i < j /\ ran[i] = "Check" /\ ran[j] = "Analyze"

\* an iteration ends with the thread it inserted already ANALYZED
C10_Witness ==
    /\ pc = "sleep"
    /\ \E id \in inserted :
         /\ threads[id].status = "ANALYZED"
         /\ threads[id].extracted_tickers # NULL

\* the job was due when the iteration started
DueAtTop(k) == current_time - last0[k] >= Intervals[k]

\* the jobs other than Daily_Run2, whose block has a second condition (see C8)
PlainJobs == {k \in 1..Len(Jobs) : Jobs[k] # "Daily_Run2"}

\* C11, as claimed: a failure of one job prevents no other job that is due
\* from running in the same iteration: when an iteration is over, by its sleep
\* or by a job's exception that main_loop handles and resumes from, every job
\* that was due in it has been called.
C11_FailureSkipsNoDueJob ==
    (pc \in {"sleep", "dberr"} /\ ran # <<>>) =>
        \A k \in PlainJobs : DueAtTop(k) => Jobs[k] \in Range(ran)

\* C12, as claimed: a Content Source error in the harvester or in the checker
\* reaches the APIException handler of main_loop (the 60-second cooldown).
C12_ApiErrorReachesCooldown ==
    failure = "api" => pc = "apierr"

\* the connection main_loop holds is open and was never closed
LiveConnection == conn = "open" /\ closes # <<>> /\ closes[Len(closes)] = 0

\* C13, as claimed: once a store error has occurred in a job, main_loop is at
\* its sqlite3.Error handler or has discarded the connection (the next
\* iteration then opens a new one before any job runs), and every job block
\* is entered with a live connection.
C13_StoreErrorDiscardsConnection ==
    /\ failure \in {"store", "late", "raised"} => (pc = "dberr" \/ conn = "None")
    /\ pc \in JobPcs => LiveConnection

\* a run of harvest_new_threads, check_for_deletions or analyze_removed_threads
\* failed in this step
JobRunFailed ==
    /\ pc \in {"harvest", "check", "analysis"}
    /\ failure' \in {"api", "store", "late", "raised"}

\* C14, as claimed: a run of the harvester, the checker or the analysis that
\* fails leaves the committed table as it was before the run, also once the
\* sqlite3.Error handler has closed the connection.
C14_FailedRunPersistsNothing ==
    [][/\ JobRunFailed => threads' = threads
       /\ pc = "dberr" => threads' = threads]_vars

\* C14, amended: a run that fails before its commit leaves the committed table
\* as it was before the run (also once the handler has closed the
\* connection); a checker run that fails after its commit leaves the complete
\* result of the run committed.  No failed run leaves part of its writes.
C14_FailedRunIsAllOrNothing ==
    [][/\ (JobRunFailed /\ failure' # "late") => threads' = threads
       /\ (JobRunFailed /\ failure' = "late") =>
            /\ pc = "check"
            /\ \E returned \in SUBSET SelectActive(threads) :
               \E info \in [returned -> Hints] :
                 threads' = check_for_deletions(threads, info, now, "ok")
       /\ pc = "dberr" => threads' = threads]_vars

\* in a later iteration the checker failed on a store error with an ACTIVE
\* thread to check, beside a thread an earlier run had committed as removed
C14_Witness ==
    /\ iter = 2
    /\ pc = "analysis"
    /\ failure = "store"
    /\ \E id \in Rows : StatusOf(id) = "ACTIVE"
    /\ \E id \in Rows : StatusOf(id) # "ACTIVE" /\ Val(threads[id].removed_utc) < current_time

\* the text is a serialized list of strings
WellFormedTickers(text) ==
    /\ SkipSpaces(text, 1) <= Len(text)
    /\ text[SkipSpaces(text, 1)] = "["
    /\ JsonLoads(text).ok

\* the table with the malformed ticker data taken as no tickers
WithoutMalformed(t) ==
    [id \in DOMAIN t |->
        IF t[id].extracted_tickers # NULL /\ ~WellFormedTickers(Val(t[id].extracted_tickers))
        THEN [t[id] EXCEPT !.extracted_tickers = NULL]
        ELSE t[id]]

\* C15, as claimed: on malformed ticker data a report raises no error and
\* main_loop does not leave its loop, and the scores a report computed are
\* the scores of the table without the malformed records.
C15_MalformedTickersSkipped ==
    /\ pc \notin {"critical", "returned"}
    /\ weighted_scores # NULL =>
         \E window \in {WINDOW_HOURLY, WINDOW_DAILY, WINDOW_WEEKLY} :
            Val(weighted_scores) =
              calculate_weighted_scores(WithoutMalformed(threads), now - window)

\* C16: once main_loop has returned nothing runs any more, and it returns
\* from its handler of unclassified errors and from any interrupt; no
\* connection is ever closed twice, and when main_loop returns every
\* connection it opened has been closed exactly once.
C16_ConnectionsClosedOnceAtReturn ==
    [][/\ pc # "returned"
       /\ (pc = "critical" \/ failure' = "interrupt") => pc' = "returned"
       /\ \A i \in 1..Len(closes') : closes'[i] <= 1
       /\ pc' = "returned" => \A i \in 1..Len(closes') : closes'[i] = 1]_vars

\* main_loop returned on an interrupt after a store error: the handler closed
\* the first connection, the finally block the second one
C16_Witness ==
    /\ pc = "returned"
    /\ failure = "interrupt"
    /\ faults = 1
    /\ closes = <<1, 1>>

GENERIC_CATEGORY == "MOD_OR_USER_REMOVED"

\* the newest ACTIVE threads, at most Limit of them
NewestActive(ids) ==
    /\ Cardinality(ids) <= Limit
    /\ \A id \in ids : threads[id].status = "ACTIVE"
    /\ \A id \in Rows \ ids :
         threads[id].status = "ACTIVE" =>
            /\ Cardinality(ids) = Limit
            /\ \A q \in ids : threads[q].created_utc >= threads[id].created_utc

\* C17: whatever subset of the queried posts the Content Source returns, and
\* with whatever hints, a successful run of check_for_deletions queries the
\* newest (at most 100) ACTIVE threads; the threads it makes REMOVED with the
\* generic category are exactly the queried ones that were not returned, with
\* removed_utc the time of the check; and every row it changes was ACTIVE, so
\* that a REMOVED or ANALYZED thread keeps its timestamp and category.
C17_CheckMarksExactlyOmitted ==
    \A returned \in SUBSET SelectActive(threads) :
    \A info \in [returned -> Hints] :
        LET queried == SelectActive(threads)
            after == check_for_deletions(threads, info, now, "ok")
        IN  /\ NewestActive(queried)
            /\ DOMAIN after = Rows
            /\ {id \in Rows :
                  /\ after[id] # threads[id]
                  /\ after[id].status = "REMOVED"
                  /\ after[id].removal_category = Some(GENERIC_CATEGORY)}
                 = queried \ returned
            /\ \A id \in queried \ returned : after[id].removed_utc = Some(now)
            /\ \A id \in Rows : after[id] # threads[id] => threads[id].status = "ACTIVE"

\* a later iteration's check has just marked an omitted thread REMOVED with
\* the generic category, at its own time, beside a thread removed earlier that
\* keeps its earlier timestamp
C17_Witness ==
    /\ iter = 2
    /\ pc = "analysis"
    /\ failure = "none"
    /\ ran # <<>> /\ ran[Len(ran)] = "Check"
    /\ \E id \in Rows :
         /\ threads[id].status = "REMOVED"
         /\ threads[id].removal_category = Some(GENERIC_CATEGORY)
         /\ threads[id].removed_utc = Some(current_time)
    /\ \E id \in Rows :
         /\ threads[id].status # "ACTIVE"
         /\ Val(threads[id].removed_utc) < current_time

\* C18, as claimed: whatever subset of the queried posts the Content Source
\* returns, a successful run of check_for_deletions makes every returned post
\* that carries a removal-category hint REMOVED with that hint as its
\* removal category, whatever the hint's value.
C18_AnyHintMarksRemoved ==
    \A returned \in SUBSET SelectActive(threads) :
    \A info \in [returned -> Hints] :
        LET after == check_for_deletions(threads, info, now, "ok")
        IN  \A id \in returned :
                info[id] # "None" =>
                    /\ after[id].status = "REMOVED"
                    /\ after[id].removal_category = Some(info[id])

\* the time the sleep takes: time.sleep(sleep_time) only if sleep_time > 0
SleptTime == IF SleepTime > 0 THEN SleepTime ELSE 0

\* the sleep as claimed: the minimum over all seven jobs of interval minus
\* elapsed, capped at the ceiling, clamped to be non-negative
ClaimedSleep ==
    LET remaining == {Intervals[k] - (current_time - Markers[k]) : k \in 1..Len(Jobs)}
        least == Min(remaining \cup {SLEEP_CAP})
    IN  IF least > 0 THEN least ELSE 0

\* C19, as claimed: at the end of every iteration the loop sleeps for the
\* minimum remaining time over all jobs, Daily_Run2 included, capped at 10
\* seconds and clamped at zero.
C19_SleepIsMinOverAllJobs ==
    pc = "sleep" => SleptTime = ClaimedSleep

\* whatever the table holds, a run of analyze_removed_threads that returns
\* leaves no thread REMOVED
AnalysisLeavesNoRemoved ==
    \A orders \in TickerOrders(threads, ALLOWED_TICKERS_SET) :
        SelectRemoved(analyze_removed_threads(threads, ALLOWED_TICKERS_SET, orders)) = {}

\* C20: with a non-empty allow-list, every run of analyze_removed_threads
\* that returns leaves no thread REMOVED, and under a fair scheduler every
\* thread that is REMOVED is eventually ANALYZED.
C20_RemovedEventuallyAnalyzed ==
    /\ []AnalysisLeavesNoRemoved
    /\ \A id \in PostIds :
         (id \in Rows /\ threads[id].status = "REMOVED")
            ~> (id \in Rows /\ threads[id].status = "ANALYZED")

\* both threads were removed and are now ANALYZED, p1 without tickers (its
\* only candidate is not allowed) and p2 with GO
C20_Witness ==
    /\ ALLOWED_TICKERS_SET = {TickerAB, TickerGO}
    /\ Rows = PostIds
    /\ \A id \in Rows : threads[id].status = "ANALYZED"
    /\ threads["p1"].extracted_tickers = NULL
    /\ threads["p2"].extracted_tickers # NULL

\* OmittedPost is ACTIVE and LIMIT or more ACTIVE threads are newer
Outranked ==
    /\ OmittedPost \in Rows
    /\ threads[OmittedPost].status = "ACTIVE"
    /\ OmittedPost \notin SelectActive(threads)

\* C21 as stated: while the check keeps running and the Content Source
\* keeps omitting a post, its ACTIVE thread is eventually marked REMOVED,
\* however many ACTIVE threads are newer.
C21_OmittedEventuallyRemoved ==
    (OmittedPost \in Rows /\ threads[OmittedPost].status = "ACTIVE")
        ~> (OmittedPost \in Rows /\ threads[OmittedPost].status # "ACTIVE")

\* C21, amended: a check that runs while fewer than LIMIT ACTIVE threads are
\* newer marks the omitted post's ACTIVE thread REMOVED, a check that runs
\* while LIMIT or more are newer leaves it ACTIVE, and so the thread does not
\* stay ACTIVE for ever unless newer ACTIVE threads outrank it.
C21_OmittedRemovedUnlessOutranked ==
    /\ [][CheckTurn /\ OmittedPost \in Rows /\ threads[OmittedPost].status = "ACTIVE"
            => IF Outranked
               THEN threads'[OmittedPost] = threads[OmittedPost]
               ELSE /\ threads'[OmittedPost].status = "REMOVED"
                    /\ threads'[OmittedPost].removal_category = Some(GENERIC_CATEGORY)]_vars
    /\ (OmittedPost \in Rows /\ threads[OmittedPost].status = "ACTIVE")
          ~> \/ OmittedPost \in Rows /\ threads[OmittedPost].status # "ACTIVE"
             \/ Outranked

\* a check has marked the omitted post REMOVED, and the newer post was
\* harvested after it
C21_Witness ==
    /\ Rows = PostIds
    /\ threads[OmittedPost].status = "REMOVED"
    /\ threads[OmittedPost].removal_category = Some(GENERIC_CATEGORY)
    /\ threads["p2"].status = "ACTIVE"

====
